---- MODULE Spec2Model ----
(***************************************************************************)
(* pybase: a Cookiecutter template for Python packages and the harness    *)
(* (tests/__init__.py) its test suite drives the generated package with.  *)
(*                                                                         *)
(* The model holds one generated package: its file tree, its setup.py as  *)
(* the syntax tree the harness parses and rewrites, the version files,    *)
(* the license whitelist, the audit ignore list, the pinned requirements  *)
(* and the virtual environment.  `test` names the test module whose       *)
(* package fixture is alive; every test function gets its own package.    *)
(*                                                                         *)
(* `Spec` follows that package from create_package() to delete_package(),  *)
(* a call of the harness at a time.  `Harness` follows the process of a   *)
(* test session instead: its working directory, os.environ, the            *)
(* directories under tmp_path and the run_from() blocks that are open,     *)
(* through the fixtures of conftest.py and the test bodies.                *)
(***************************************************************************)
EXTENDS Integers, Sequences, FiniteSets, TLC

(* ------------------------------ bounds -------------------------------- *)

\* Most dependencies a workflow appends to install_requires.
MaxAdded == 2
\* Most version bumps of one package.
MaxBumps == 2
\* Most lines a test appends to .license-whitelist.
MaxAppended == 2

(* ----------------------------- constants ------------------------------ *)

PACKAGE_DIR == "test_package"

NoFile == [kind |-> "absent"]
None == [kind |-> "None"]

(* ------------------------- syntax tree of setup.py -------------------- *)

Constant(v) == [type |-> "Constant", value |-> v]
List(elts) == [type |-> "List", elts |-> elts]
Dict(keys, values) == [type |-> "Dict", keys |-> keys, values |-> values]
keyword(arg, value) == [type |-> "keyword", arg |-> arg, value |-> value]
Call(func, keywords) == [type |-> "Call", func |-> func, keywords |-> keywords]
Expr(value) == [type |-> "Expr", value |-> value]
ImportFrom(module, names) == [type |-> "ImportFrom", module |-> module, names |-> names]
Module(body) == [type |-> "Module", body |-> body]

Constants(values) == [i \in 1..Len(values) |-> Constant(values[i])]

(* A Python dict: a function from its keys; d[k] = v adds or replaces k. *)
EmptyDict == [k \in {} |-> None]
DictSet(d, k, v) == [x \in (DOMAIN d) \cup {k} |-> IF x = k THEN v ELSE d[x]]

(* The child nodes ast.iter_child_nodes yields, in field order.            *)
Children(node) ==
    CASE node.type = "Module" -> node.body
      [] node.type = "Expr" -> <<node.value>>
      [] node.type = "Call" -> <<node.func>> \o node.keywords
      [] node.type = "keyword" -> <<node.value>>
      [] node.type = "List" -> node.elts
      [] node.type = "Dict" -> node.keys \o node.values
      [] node.type = "ImportFrom" -> node.names
      [] OTHER -> <<>>

(* ------------------------------ contexts ------------------------------ *)

\* Context values the package fixture and its overrides provide.  A
\* version is the triple of its dot-separated numbers.
FullNames == {"John Doe"}
Emails == {"johndoe@domain.tld"}
ProjectNames == {"Test Package", "Other Package"}
Versions == {<<22, 2, 11>>, <<23, 1, 0>>}
Flags == {"y", "n"}

Contexts ==
    [full_name : FullNames, email : Emails, project_name : ProjectNames,
     version : Versions, use_trio : Flags, use_db : Flags]

\* tests/conftest.py: the context fixture, with the flags at their default.
context ==
    [full_name |-> "John Doe", email |-> "johndoe@domain.tld",
     project_name |-> "Test Package", version |-> <<22, 2, 11>>,
     use_trio |-> "n", use_db |-> "n"]

\* The private variable __project_slug of cookiecutter.json.
project_slug(project_name) ==
    CASE project_name = "Test Package" -> "test_package"
      [] project_name = "Other Package" -> "other_package"

(* ------------------- {{cookiecutter.__project_slug}}/setup.py --------- *)

BaseInstall == <<"attrs>=20.2", "zope.interface>=5.0", "mypy-zope>=0.3.3">>
TrioInstall == <<"trio>=0.19", "trio-typing>=0.7">>
DBInstall == <<"alembic>=1.7", "psycopg2-binary", "sqlalchemy[mypy]>=2.0">>
BaseDev ==
    <<"bandit", "bumpver>=2021.1109", "black>=22.1", "coverage[toml]>=5.0",
      "flake8", "flake8-bugbear", "hypothesis>=6.0", "isort>=5.0",
      "mypy>=0.920", "pdbpp", "pip-audit", "pylint", "pytest>=6.0",
      "pytest-cov>=3.0", "tox">>
TrioDev == <<"pytest-trio>=0.7">>

\* install_requires with the two {%- if %} blocks in the other order.
install_requires_db_first(c) ==
    BaseInstall
      \o (IF c.use_db = "y" THEN DBInstall ELSE <<>>)
      \o (IF c.use_trio = "y" THEN TrioInstall ELSE <<>>)

\* The install_requires list the template renders: the {%- if %} blocks.
install_requires(c) ==
    BaseInstall
      \o (IF c.use_trio = "y" THEN TrioInstall ELSE <<>>)
      \o (IF c.use_db = "y" THEN DBInstall ELSE <<>>)

\* The "dev" list of extras_require the template renders.
extras_dev(c) ==
    BaseDev \o (IF c.use_trio = "y" THEN TrioDev ELSE <<>>)

\* The rendered setup.py, parsed: every keyword of the setup() call.
setup_py(c) ==
    Module(<<
        ImportFrom("setuptools", <<[type |-> "alias", name |-> "find_packages"],
                                   [type |-> "alias", name |-> "setup"]>>),
        Expr(Call([type |-> "Name", id |-> "setup"], <<
            keyword("name", Constant(project_slug(c.project_name))),
            keyword("version", Constant(c.version)),
            keyword("author", Constant(c.full_name)),
            keyword("author_email", Constant(c.email)),
            keyword("package_dir", Dict(<<Constant("")>>, <<Constant("src")>>)),
            keyword("packages",
                    Call([type |-> "Name", id |-> "find_packages"],
                         <<keyword("where", Constant("src"))>>)),
            keyword("install_requires", List(Constants(install_requires(c)))),
            keyword("extras_require",
                    Dict(<<Constant("dev")>>, <<List(Constants(extras_dev(c)))>>)),
            keyword("python_requires", Constant(">=3.9")),
            keyword("zip_safe", Constant(FALSE))
        >>))
    >>)

\* A setup.py on disk: its text is the tree plus the layout it is written
\* in.  Cookiecutter writes the template's layout; ast.unparse writes its
\* own (one line per statement, single quotes).
Rendered(c) == [layout |-> "template", tree |-> setup_py(c)]
parse(file) == file.tree
unparse(tree) == [layout |-> "unparse", tree |-> tree]

(* ------------- {{cookiecutter.project_slug}}/setup.py ----------------- *)

\* The lists of the repository's other template directory.
DBInstall_project_slug ==
    <<"alembic>=1.7", "psycopg2-binary", "SQLAlchemy>=1.4", "sqlalchemy2-stubs">>
BaseDev_project_slug ==
    <<"bandit", "black>=22.1", "coverage[toml]", "flake8", "flake8-bugbear",
      "hypothesis", "isort>=5.0", "mypy>=0.920", "pip-audit", "pylint",
      "pytest>=6.0", "pytest-cov", "tox">>

install_requires_project_slug(c) ==
    BaseInstall
      \o (IF c.use_trio = "y" THEN TrioInstall ELSE <<>>)
      \o (IF c.use_db = "y" THEN DBInstall_project_slug ELSE <<>>)

extras_dev_project_slug(c) ==
    BaseDev_project_slug \o (IF c.use_trio = "y" THEN TrioDev ELSE <<>>)

\* {{cookiecutter.project_slug}}/setup.py rendered and parsed.
setup_py_project_slug(c) ==
    Module(<<
        ImportFrom("setuptools", <<[type |-> "alias", name |-> "find_packages"],
                                   [type |-> "alias", name |-> "setup"]>>),
        Expr(Call([type |-> "Name", id |-> "setup"], <<
            keyword("name", Constant(project_slug(c.project_name))),
            keyword("version", Constant(c.version)),
            keyword("author", Constant(c.full_name)),
            keyword("author_email", Constant(c.email)),
            keyword("package_dir", Dict(<<Constant("")>>, <<Constant("src")>>)),
            keyword("packages",
                    Call([type |-> "Name", id |-> "find_packages"],
                         <<keyword("where", Constant("src"))>>)),
            keyword("install_requires",
                    List(Constants(install_requires_project_slug(c)))),
            keyword("extras_require",
                    Dict(<<Constant("dev")>>,
                         <<List(Constants(extras_dev_project_slug(c)))>>)),
            keyword("python_requires", Constant(">=3.9")),
            keyword("zip_safe", Constant(FALSE))
        >>))
    >>)

Rendered_project_slug(c) == [layout |-> "template", tree |-> setup_py_project_slug(c)]

(* ------------------------ readers of setup.py ------------------------- *)

MetaKeys == {"name", "version", "author", "author_email"}

\* visit_keyword recording every keyword given as a literal.
MetaVisitAnyKeyword(node, meta) ==
    IF node.value.type = "Constant"
    THEN DictSet(meta, node.arg, node.value.value) ELSE meta

\* MetaVisitor.visit_keyword: it records the keyword and visits nothing
\* below it.
MetaVisitKeyword(node, meta) ==
    IF node.arg \in MetaKeys THEN DictSet(meta, node.arg, node.value.value) ELSE meta

RECURSIVE MetaVisitor(_, _)
MetaVisitor(nodes, meta) ==
    IF nodes = <<>> THEN meta
    ELSE LET node == Head(nodes)
             seen == IF node.type = "keyword" THEN MetaVisitKeyword(node, meta)
                     ELSE MetaVisitor(Children(node), meta)
         IN  MetaVisitor(Tail(nodes), seen)

get_meta(file) == MetaVisitor(<<parse(file)>>, EmptyDict)

Values(elts) == [i \in 1..Len(elts) |-> elts[i].value]

RECURSIVE ZipGroups(_, _, _)
ZipGroups(keys, values, extras) ==
    IF keys = <<>> \/ values = <<>> THEN extras
    ELSE ZipGroups(Tail(keys), Tail(values),
                   DictSet(extras, Head(keys).value, Values(Head(values).elts)))

\* DependenciesVisitor.visit_keyword.
DependenciesVisitKeyword(node, deps) ==
    LET d1 == IF node.arg = "install_requires"
              THEN [deps EXCEPT !.install = Values(node.value.elts)]
              ELSE deps
    IN  IF node.arg = "extras_require"
        THEN [d1 EXCEPT !.extras = ZipGroups(node.value.keys, node.value.values, d1.extras)]
        ELSE d1

RECURSIVE DependenciesVisitor(_, _)
DependenciesVisitor(nodes, deps) ==
    IF nodes = <<>> THEN deps
    ELSE LET node == Head(nodes)
             seen == IF node.type = "keyword" THEN DependenciesVisitKeyword(node, deps)
                     ELSE DependenciesVisitor(Children(node), deps)
         IN  DependenciesVisitor(Tail(nodes), seen)

get_dependencies(file) ==
    DependenciesVisitor(<<parse(file)>>, [install |-> <<>>, extras |-> EmptyDict])

(* ------------------------ writers of setup.py ------------------------- *)

\* NodeTransformer.generic_visit: the node with its children replaced.
Rebuild(node, kids) ==
    CASE node.type = "Module" -> [node EXCEPT !.body = kids]
      [] node.type = "Expr" -> [node EXCEPT !.value = kids[1]]
      [] node.type = "Call" ->
            [node EXCEPT !.func = kids[1], !.keywords = Tail(kids)]
      [] node.type = "keyword" -> [node EXCEPT !.value = kids[1]]
      [] node.type = "List" -> [node EXCEPT !.elts = kids]
      [] node.type = "Dict" ->
            [node EXCEPT !.keys = SubSeq(kids, 1, Len(node.keys)),
                         !.values = SubSeq(kids, Len(node.keys) + 1, Len(kids))]
      [] node.type = "ImportFrom" -> [node EXCEPT !.names = kids]
      [] OTHER -> node

\* visit_keyword leaving alone a list that already holds the dependency.
AdderSkipsPresent(node, dependency) ==
    IF node.arg = "install_requires"
         /\ \A i \in 1..Len(node.value.elts) : node.value.elts[i].value # dependency
    THEN keyword(node.arg, List(node.value.elts \o <<Constant(dependency)>>))
    ELSE node

\* DependencyAdder.visit_keyword.
AdderVisitKeyword(node, dependency) ==
    IF node.arg = "install_requires"
    THEN keyword(node.arg, List(node.value.elts \o <<Constant(dependency)>>))
    ELSE node

RECURSIVE DependencyAdder(_, _)
DependencyAdder(nodes, dependency) ==
    [i \in 1..Len(nodes) |->
        IF nodes[i].type = "keyword" THEN AdderVisitKeyword(nodes[i], dependency)
        ELSE Rebuild(nodes[i], DependencyAdder(Children(nodes[i]), dependency))]

add_dependency(dependency, file) ==
    unparse(DependencyAdder(<<parse(file)>>, dependency)[1])

\* The loop stopping at the first element it replaces.
NewDepsFirstOnly(elts, old, new) ==
    [i \in 1..Len(elts) |->
        IF elts[i].value = old /\ \A j \in 1..(i - 1) : elts[j].value # old
        THEN Constant(new) ELSE elts[i]]

\* The loop of DependencyUpdater.visit_keyword over node.value.elts.
NewDeps(elts, old, new) ==
    [i \in 1..Len(elts) |-> IF elts[i].value = old THEN Constant(new) ELSE elts[i]]

\* DependencyUpdater.visit_keyword.
UpdaterVisitKeyword(node, old, new) ==
    IF node.arg = "install_requires"
    THEN keyword(node.arg, List(NewDeps(node.value.elts, old, new)))
    ELSE node

RECURSIVE DependencyUpdater(_, _, _)
DependencyUpdater(nodes, old, new) ==
    [i \in 1..Len(nodes) |->
        IF nodes[i].type = "keyword" THEN UpdaterVisitKeyword(nodes[i], old, new)
        ELSE Rebuild(nodes[i], DependencyUpdater(Children(nodes[i]), old, new))]

update_dependency(old, new, file) ==
    unparse(DependencyUpdater(<<parse(file)>>, old, new)[1])

(* --------------------------- version files ---------------------------- *)

\* Text is a sequence of tokens: white space, or a word.  The text of a
\* version is the one word holding it.
WS == [kind |-> "ws"]
Word(v) == [kind |-> "word", value |-> v]
str(v) == <<Word(v)>>

\* str.strip(): the text without its leading and trailing white space.
RECURSIVE lstrip(_)
lstrip(text) ==
    IF text # <<>> /\ Head(text) = WS THEN lstrip(Tail(text)) ELSE text

RECURSIVE rstrip(_)
rstrip(text) ==
    IF text # <<>> /\ text[Len(text)] = WS
    THEN rstrip(SubSeq(text, 1, Len(text) - 1))
    ELSE text

strip(text) == rstrip(lstrip(text))

\* get_current_version() comparing with the text of VERSION as read.
get_current_version_unstripped(py_version, text) ==
    IF str(py_version) = text
    THEN [raises |-> "no", value |-> py_version]
    ELSE [raises |-> "AssertionError", value |-> None]

\* get_current_version(): __version__ of the package's __init__.py, after
\* the assertion that the VERSION file holds the same text.
get_current_version(py_version, text) ==
    LET plaintext_version == strip(text)
    IN  IF str(py_version) = plaintext_version
        THEN [raises |-> "no", value |-> py_version]
        ELSE [raises |-> "AssertionError", value |-> None]

\* The LICENSE file starts "Copyright (c) <year>"; get_license_year()
\* returns the four digits.
get_license_year(license) == license.year

\* The year a calendar version is of, as BumpVer's YEAR_Y gives it.
YearOf(v) == 2000 + v[1]

\* BumpVer's "show -ne": one KEY=VALUE line per variable.
bumpver_show(current_version) ==
    <<  <<"CURRENT_VERSION", current_version>>,
        <<"YEAR_Y", YearOf(current_version)>>,
        <<"MONTH", current_version[2]>>,
        <<"PATCH", current_version[3]>>  >>

\* get_bumpver_info(): dict(line.split("=") for line in output).
RECURSIVE DictOfLines(_, _)
DictOfLines(lines, d) ==
    IF lines = <<>> THEN d
    ELSE DictOfLines(Tail(lines), DictSet(d, Head(lines)[1], Head(lines)[2]))

get_bumpver_info(current_version) == DictOfLines(bumpver_show(current_version), EmptyDict)

\* The days BumpVer may run on, as <<year, month>>.
Dates == {<<22, 2>>, <<26, 11>>}

\* BumpVer's "update --patch": the date parts follow the day, the patch
\* number counts on within one month.
NextVersion(v, day) ==
    IF <<v[1], v[2]>> = day THEN <<v[1], v[2], v[3] + 1>> ELSE <<day[1], day[2], 0>>

\* The version keyword of setup.py rewritten in place by BumpVer.
SetVersion(file, v) ==
    [file EXCEPT !.tree.body[2].value.keywords[2].value = Constant(v)]

(* ------------------------ packages and their tools -------------------- *)

GPLv2 == "GNU General Public License v2 (GPLv2)"
LGPLv2 == "GNU Lesser General Public License v2 (LGPLv2)"

\* The project a requirement names.
ProjectOf(requirement) ==
    CASE requirement \in {"cryptography==3.3.1", "cryptography>3.3.2"} -> "cryptography"
      [] OTHER -> requirement

\* The releases of a project the index offers, best last.
Releases(project) ==
    IF project = "cryptography" THEN <<"3.3.1", "41.0.0">> ELSE <<"latest">>

Satisfies(release, requirement) ==
    CASE requirement = "cryptography==3.3.1" -> release = "3.3.1"
      [] requirement = "cryptography>3.3.2" -> release = "41.0.0"
      [] OTHER -> TRUE

\* What a project pulls in: pylint depends on astroid.
Requires(project) == IF project = "pylint" THEN {"astroid"} ELSE {}

LicenseOf(project) ==
    CASE project = "pylint" -> GPLv2
      [] project = "astroid" -> LGPLv2
      [] project = "cryptography" -> "Apache Software License"
      [] project = "zope.interface>=5.0" -> "Zope Public License"
      [] OTHER -> "MIT License"

\* .license-whitelist as the template ships it.
TemplateWhitelist ==
    <<"Apache Software License", "MIT License", "Zope Public License">>

VulnerabilityIds == {"PYSEC-2021-63", "GHSA-x4qr-2fvf-3mr5", "GHSA-w7pp-m8wf-vj6r"}

\* The advisories against a pinned release, and the release fixing them.
Advisories(pin) ==
    IF pin.project = "cryptography" /\ pin.release = "3.3.1" THEN VulnerabilityIds ELSE {}
FixVersion(pin) == "3.3.2"

Range(seq) == {seq[i] : i \in 1..Len(seq)}

\* pip-compile: one pin per project the requirements name or pull in, the
\* best release all of them allow; "conflict" when a project has none.
Candidates(project, requirements) ==
    {i \in 1..Len(Releases(project)) :
        \A r \in requirements :
            ProjectOf(r) = project => Satisfies(Releases(project)[i], r)}

pip_compile(requirements) ==
    LET named == {ProjectOf(r) : r \in requirements}
        projects == named \cup UNION {Requires(p) : p \in named}
    IN  IF \E p \in projects : Candidates(p, requirements) = {}
        THEN [returncode |-> 1, pins |-> {}]
        ELSE [returncode |-> 0,
              pins |-> {[project |-> p,
                         release |-> Releases(p)[CHOOSE i \in Candidates(p, requirements) :
                                        \A j \in Candidates(p, requirements) : j <= i]] :
                        p \in projects}]

\* scripts/gen_requirements.sh and scripts/update_requirements.sh: both
\* pinned files compiled from setup.py, or neither on a conflict.
compile_requirements(file, old) ==
    LET deps == get_dependencies(file)
        install == Range(deps.install)
        dev == install \cup UNION {Range(deps.extras[e]) : e \in DOMAIN deps.extras}
        all == pip_compile(dev)
    IN  IF all.returncode # 0
        THEN [returncode |-> 1, files |-> old]
        ELSE [returncode |-> 0,
              files |-> [requirements |-> pip_compile(install).pins, dev |-> all.pins]]

\* scripts/run_audit.sh: pip-audit over the environment, less the
\* advisories .audit-ignore lists.
run_audit(site, ignore) ==
    LET ignored == IF ignore = NoFile THEN {} ELSE Range(ignore)
        found == {pin \in site : Advisories(pin) \ ignored # {}}
    IN  IF found = {}
        THEN [returncode |-> 0, stdout |-> {"No known vulnerabilities found"},
              stderr |-> {}]
        ELSE [returncode |-> 1,
              stdout |-> {pin.project : pin \in found}
                           \cup UNION {Advisories(pin) \ ignored : pin \in found}
                           \cup {FixVersion(pin) : pin \in found},
              stderr |-> {}]

WhitelistMissing == "license-whitelist: License whitelist not found, or found empty"

\* tox -e licenses: scripts/run_license_check.sh over the pinned install
\* requirements.
run_license_check(pins, whitelist) ==
    IF whitelist = NoFile \/ whitelist = <<>>
    THEN [returncode |-> 1, stdout |-> {WhitelistMissing}, stderr |-> {}]
    ELSE LET bad == {pin \in pins : LicenseOf(pin.project) \notin Range(whitelist)}
         IN  IF bad = {}
             THEN [returncode |-> 0, stdout |-> {}, stderr |-> {}]
             ELSE [returncode |-> 1,
                   stdout |-> {pin.project : pin \in bad}
                                \cup {LicenseOf(pin.project) : pin \in bad},
                   stderr |-> {}]

(* ------------------------------- run_cmd ------------------------------ *)

\* subprocess.run() without check=True: it returns whatever the exit code.
run_cmd_unchecked(cmd, process) ==
    [raises |-> "no", cmd |-> cmd,
     returncode |-> process.returncode, stdout |-> process.stdout,
          stderr |-> process.stderr]

\* subprocess.run() without capture_output=True: no output is kept.
run_cmd_uncaptured(cmd, process) ==
    IF process.returncode # 0
    THEN [raises |-> "CalledProcessError", cmd |-> cmd,
          returncode |-> process.returncode, stdout |-> {}, stderr |-> {}]
    ELSE [raises |-> "no", cmd |-> cmd,
          returncode |-> process.returncode, stdout |-> {}, stderr |-> {}]

\* subprocess.run() raising for the exit codes above zero only: a child a
\* signal ended (a negative code) is returned.
run_cmd_positive_only(cmd, process) ==
    IF process.returncode > 0
    THEN [raises |-> "CalledProcessError", cmd |-> cmd,
          returncode |-> process.returncode, stdout |-> process.stdout,
          stderr |-> process.stderr]
    ELSE [raises |-> "no", cmd |-> cmd,
          returncode |-> process.returncode, stdout |-> process.stdout,
          stderr |-> process.stderr]

\* subprocess.run(..., check=True, capture_output=True) on a finished
\* process: the CompletedProcess, or CalledProcessError raised.
run_cmd(cmd, process) ==
    IF process.returncode # 0
    THEN [raises |-> "CalledProcessError", cmd |-> cmd,
          returncode |-> process.returncode, stdout |-> process.stdout,
          stderr |-> process.stderr]
    ELSE [raises |-> "no", cmd |-> cmd,
          returncode |-> process.returncode, stdout |-> process.stdout,
          stderr |-> process.stderr]

(* -------------------------------- state ------------------------------- *)

VARIABLES
    test,           \* the test module whose package fixture this is
    ctx,            \* the context given to Cookiecutter
    pc,             \* "fixture", "ready", "raised" or "deleted"
    tree,           \* the regular files of the package directory
    setup,          \* setup.py
    init_version,   \* __version__ of src/test_package/__init__.py
    version_file,   \* the text of VERSION
    license,        \* LICENSE
    pyproject,      \* BumpVer's section of pyproject.toml
    bumps,          \* version bumps made
    whitelist,      \* .license-whitelist, a line per license
    audit_ignore,   \* .audit-ignore, a line per advisory
    requirements,   \* requirements/requirements.txt and requirements/dev.txt
    site_packages,  \* what the virtual environment holds
    error,          \* the exception the last failing call raised
    result,         \* what the last successful call returned
    last,           \* the last call made: what it was given, setup.py as it
                    \* found it, what it raised and the call it followed
    hpc,            \* where the test session is: a fixture, the body, a finalizer
    current,        \* the number of the test function being run
    cwd,            \* the working directory of the process
    dirs,           \* the directories there are
    frames,         \* the run_from() blocks entered and not yet left
    os_environ,     \* os.environ
    process_environ,\* the environment block of the process, as putenv() left it
    child,          \* what the last child process was given
    outcome,        \* what the last run_cmd() returned or raised
    steps           \* what the last call of the harness did, in order

package_files ==
    <<tree, setup, init_version, version_file, license, pyproject, whitelist,
      audit_ignore>>
version_files == <<init_version, version_file, license, pyproject, bumps>>
environment == <<requirements, site_packages>>
\* The process the tests run in.
process == <<hpc, current, cwd, dirs, frames, os_environ, process_environ, child,
             outcome, steps>>
vars ==
    <<test, ctx, pc, tree, setup, init_version, version_file, license, pyproject,
      bumps, whitelist, audit_ignore, requirements, site_packages, error, result,
      last, hpc, current, cwd, dirs, frames, os_environ, process_environ, child,
      outcome, steps>>

Tests ==
    {"test_generation", "test_bump_version", "test_bad_licenses",
     "test_vulnerabilities"}

\* Requirements the workflows declare.
Dependencies == {"pylint", "cryptography==3.3.1", "cryptography>3.3.2"}

(* ------------------------------ the tree ------------------------------ *)

\* TestPackageGeneration.FILES.
FILES ==
    {".editorconfig", ".flake8", ".gitignore", ".license-whitelist",
     ".vscode/settings.json", "LICENSE", "pyproject.toml", "Rakefile",
     "setup.py", "tox.ini", "VERSION", "requirements/requirements.txt",
     "requirements/dev.txt", "scripts/gen_requirements.sh",
     "scripts/run_audit.sh", "scripts/run_license_check.sh",
     "scripts/update_requirements.sh", "src/test_package/__init__.py",
     "tests/test_void.py"}

\* What TestDBPackageGeneration.FILES adds.
DB_FILES ==
    {"alembic.ini", "alembic/README", "alembic/env.py", "alembic/script.py.mako",
     "alembic/versions/.gitkeep", "src/test_package/models.py"}

RequirementsFiles == {"requirements/requirements.txt", "requirements/dev.txt"}

\* The files Cookiecutter renders: the template's, the database ones only
\* for a package that uses a database.
TemplateFiles(c) ==
    ((FILES \ RequirementsFiles) \cup {"scripts/bootstrap.sh"})
        \cup (IF c.use_db = "y" THEN DB_FILES ELSE {})

\* scripts/bootstrap.sh: it pins the requirements, installs them and the
\* package, and removes itself.
Bootstrapped(files) == (files \cup RequirementsFiles) \ {"scripts/bootstrap.sh"}

\* path.stat().st_size of a file of the tree.
st_size(path) ==
    CASE path = "requirements/requirements.txt" -> Cardinality(requirements.requirements)
      [] path = "requirements/dev.txt" -> Cardinality(requirements.dev)
      [] OTHER -> 1

Itself == [project |-> PACKAGE_DIR, release |-> "editable"]

\* install_dev_requirements(): pip-sync of requirements/dev.txt, then the
\* package itself in editable mode.
install_dev_requirements(files) == files.dev \cup {Itself}

(* ------------------------------ paths --------------------------------- *)

VENV_DIR == "package_venv"

\* The directory the test session is started from.
ROOT == <<"/", "repo">>

\* tmp_path of the n-th test function: a directory of its own.
TmpNames == <<"t1", "t2", "t3", "t4">>
tmp_path(n) == <<"/", "tmp", TmpNames[n]>>

is_absolute(path) == path # <<>> /\ path[1] = "/"

\* The components of a path followed from the root: "." stays, ".." goes
\* up, and the root is its own parent.
RECURSIVE Follow(_, _)
Follow(at, path) ==
    IF path = <<>> THEN at
    ELSE IF path[1] = "." \/ path[1] = "/" THEN Follow(at, Tail(path))
    ELSE IF path[1] = ".."
         THEN Follow(IF Len(at) > 1 THEN SubSeq(at, 1, Len(at) - 1) ELSE at,
                     Tail(path))
         ELSE Follow(Append(at, path[1]), Tail(path))

\* pathlib.Path(path).resolve() in the working directory wd (no symbolic
\* links in these trees).
resolve(path, wd) ==
    IF is_absolute(path) THEN Follow(<<"/">>, path) ELSE Follow(wd, path)

\* str(path).
RECURSIVE fspath(_)
fspath(path) ==
    IF path = <<>> THEN "."
    ELSE IF Len(path) = 1 THEN path[1]
    ELSE IF path[1] = "/" THEN "/" \o fspath(Tail(path))
    ELSE path[1] \o "/" \o fspath(Tail(path))

\* Package(package=target_loc / PACKAGE_DIR, venv=target_loc / VENV_DIR).
Package(target, wd) ==
    [package |-> Append(resolve(target, wd), PACKAGE_DIR),
     venv |-> Append(resolve(target, wd), VENV_DIR)]

Within(path, dir) ==
    Len(path) >= Len(dir) /\ SubSeq(path, 1, Len(dir)) = dir

\* The entries of a directory.
listdir(dir, fs) == {path \in fs : Len(path) = Len(dir) + 1 /\ Within(path, dir)}

\* shutil.rmtree(path, ignore_errors=True).
rmtree(path, fs) == {other \in fs : ~Within(other, path)}

\* delete_package() removing the package directory only.
delete_package_keeps_venv(package, fs) == rmtree(package.package, fs)

\* delete_package(package).
delete_package(package, fs) == rmtree(package.venv, rmtree(package.package, fs))

(* ------------------------------ run_from ------------------------------ *)

\* run_from() taking original_path once it has changed directory.
run_from_enter_late(path, wd, fs) ==
    LET target_path == resolve(path, wd)
    IN  IF wd \notin fs \/ target_path \notin fs
        THEN [raises |-> "FileNotFoundError", cwd |-> wd,
              frame |-> [original_path |-> target_path, target_path |-> target_path]]
        ELSE [raises |-> "no", cwd |-> target_path,
              frame |-> [original_path |-> target_path, target_path |-> target_path]]

\* run_from(path) up to its yield: the block's frame and the directory the
\* body starts in, or what pathlib.Path.cwd() or os.chdir() raises.
run_from_enter(path, wd, fs) ==
    LET original_path == resolve(wd, wd)
        target_path == resolve(path, wd)
    IN  IF wd \notin fs \/ target_path \notin fs
        THEN [raises |-> "FileNotFoundError", cwd |-> wd,
              frame |-> [original_path |-> original_path, target_path |-> target_path]]
        ELSE [raises |-> "no", cwd |-> target_path,
              frame |-> [original_path |-> original_path, target_path |-> target_path]]

\* run_from() resumed after its yield: os.chdir(original_path).
run_from_resume(frame, wd, fs) ==
    IF frame.original_path \notin fs
    THEN [raises |-> "FileNotFoundError", cwd |-> wd]
    ELSE [raises |-> "no", cwd |-> frame.original_path]

\* run_from() when its body raises: the exception is thrown in at the
\* yield and leaves the generator there.
run_from_throw(frame, wd, raised) == [raises |-> raised, cwd |-> wd]

(* ----------------------- run_cmd: the environment --------------------- *)

\* A string is the sequence of its pieces: ":" and the names between.
\* s.split(sep).
RECURSIVE split(_, _)
split(s, sep) ==
    IF \A i \in 1..Len(s) : s[i] # sep THEN <<s>>
    ELSE LET i == CHOOSE i \in 1..Len(s) :
                    s[i] = sep /\ \A j \in 1..(i - 1) : s[j] # sep
         IN  <<SubSeq(s, 1, i - 1)>> \o split(SubSeq(s, i + 1, Len(s)), sep)

\* sep.join(parts).
RECURSIVE join(_, _)
join(sep, parts) ==
    IF parts = <<>> THEN <<>>
    ELSE IF Len(parts) = 1 THEN parts[1]
    ELSE parts[1] \o <<sep>> \o join(sep, Tail(parts))

\* The arguments the harness passes that shlex.quote() has to quote.
Unsafe == {".[dev]", "cryptography>3.3.2"}

shlex_quote(s) == IF s \in Unsafe THEN "'" \o s \o "'" ELSE s

\* shlex.join([cmd, *args]).
RECURSIVE shlex_join(_)
shlex_join(args) ==
    IF args = <<>> THEN ""
    ELSE IF Len(args) = 1 THEN shlex_quote(args[1])
    ELSE shlex_quote(args[1]) \o " " \o shlex_join(Tail(args))

\* run_cmd() changing os.environ itself, not a copy of it.
run_cmd_environment_shared(venv, environ, block, wd) ==
    IF venv = None
    THEN [raises |-> "no", environment |-> environ, os_environ |-> environ,
          process_environ |-> block]
    ELSE IF "PATH" \notin DOMAIN environ
    THEN [raises |-> "KeyError", environment |-> environ, os_environ |-> environ,
          process_environ |-> block]
    ELSE LET venv_bin == Append(resolve(venv, wd), "bin")
             path == join(":", <<<<fspath(venv_bin)>>>> \o split(environ.PATH, ":"))
         IN  [raises |-> "no",
              environment |-> [environ EXCEPT !.PATH = path],
              os_environ |-> [environ EXCEPT !.PATH = path],
              process_environ |-> [key \in DOMAIN block \cup {"PATH"} |->
                                     IF key = "PATH" THEN path ELSE block[key]]]

\* The environment run_cmd() gives the child: a deep copy of os.environ,
\* PATH led by the virtual environment's bin directory.  The copy is an
\* os._Environ too: setting its PATH calls putenv(), which rewrites the
\* environment block of the process; os.environ keeps what it held.
run_cmd_environment(venv, environ, block, wd) ==
    IF venv = None
    THEN [raises |-> "no", environment |-> environ, os_environ |-> environ,
          process_environ |-> block]
    ELSE IF "PATH" \notin DOMAIN environ
    THEN [raises |-> "KeyError", environment |-> environ, os_environ |-> environ,
          process_environ |-> block]
    ELSE LET venv_bin == Append(resolve(venv, wd), "bin")
             path == join(":", <<<<fspath(venv_bin)>>>> \o split(environ.PATH, ":"))
         IN  [raises |-> "no",
              environment |-> [environ EXCEPT !.PATH = path],
              os_environ |-> environ,
              process_environ |-> [key \in DOMAIN block \cup {"PATH"} |->
                                     IF key = "PATH" THEN path ELSE block[key]]]

(* ------------------- the harness, statement by statement -------------- *)

\* The process as a statement finds it and leaves it: `raises` is the
\* exception on its way out, and a statement it has passed does not run.
NoChild == [cmd |-> "", environment |-> None, cwd |-> <<>>]

\* A statement of the harness that runs no command.
Did(s, step) ==
    IF s.raises # "no" THEN s
    ELSE [s EXCEPT !.steps = Append(@, [step |-> step, returncode |-> 0])]

\* run_cmd(*args, venv=venv) where the child ends as `finished`.
run_cmd_from(s, args, venv, finished) ==
    IF s.raises # "no" THEN s
    ELSE LET command == shlex_join(args)
             env == run_cmd_environment(venv, s.os_environ, s.process_environ, s.cwd)
             done == run_cmd(command, finished)
         IN  IF env.raises # "no"
             THEN [s EXCEPT !.raises = env.raises,
                            !.outcome = [raises |-> env.raises],
                            !.os_environ = env.os_environ,
                            !.process_environ = env.process_environ]
             ELSE [s EXCEPT !.raises = done.raises,
                            !.outcome = done,
                            !.os_environ = env.os_environ,
                            !.process_environ = env.process_environ,
                            !.child = [cmd |-> command,
                                       environment |-> env.environment,
                                       cwd |-> s.cwd],
                            !.steps = Append(@, [step |-> command,
                                                  returncode |-> finished.returncode])]

\* A child that ends with the exit code given for its command.
Exits(exit, cmd) == [returncode |-> exit[cmd], stdout |-> {}, stderr |-> {}]

\* with run_from(path): the process as the body of the block finds it, or
\* as run_from() left it when it raised.
run_from_body(s, path) ==
    IF s.raises # "no" THEN s
    ELSE LET entered == run_from_enter(path, s.cwd, s.dirs)
         IN  IF entered.raises # "no"
             THEN [s EXCEPT !.raises = entered.raises]
             ELSE [s EXCEPT !.cwd = entered.cwd]

\* with run_from(path): the block left, where `after` is the process as
\* the body, started from run_from_body(s, path), left it.
with_run_from(s, path, after) ==
    IF s.raises # "no" THEN s
    ELSE LET entered == run_from_enter(path, s.cwd, s.dirs)
             thrown == run_from_throw(entered.frame, after.cwd, after.raises)
             resumed == run_from_resume(entered.frame, after.cwd, after.dirs)
         IN  IF entered.raises # "no" THEN run_from_body(s, path)
             ELSE IF after.raises # "no"
             THEN [after EXCEPT !.cwd = thrown.cwd, !.raises = thrown.raises]
             ELSE [after EXCEPT !.cwd = resumed.cwd, !.raises = resumed.raises]

\* delete_package(package), as a statement.
delete_package_from(s, package) ==
    IF s.raises # "no" THEN s
    ELSE Did([s EXCEPT !.dirs = delete_package(package, @)], "delete_package")

\* cookiecutter(template, output_dir=target, no_input=True, ...): the
\* package rendered under <target>/<slug>, unless that directory is there.
cookiecutter(s, target, c) ==
    IF s.raises # "no" THEN s
    ELSE LET target_loc == resolve(target, s.cwd)
             output == Append(target_loc, project_slug(c.project_name))
             called == [step |-> "cookiecutter", returncode |-> 0,
                        entries |-> listdir(target_loc, s.dirs)]
         IN  IF output \in s.dirs
             THEN [s EXCEPT !.raises = "OutputDirExistsException",
                            !.steps = Append(@, called)]
             ELSE [s EXCEPT !.dirs = @ \cup {target_loc, output},
                            !.steps = Append(@, called)]

\* venv.EnvBuilder(clear=True, ...).create(package.venv).
virtualenv_create(s, package) ==
    IF s.raises # "no" THEN s
    ELSE Did([s EXCEPT !.dirs = @ \cup {package.venv}], "virtualenv.create")

\* create_package(target, **context).
create_package(s, target, c, exit) ==
    LET package == Package(target, s.cwd)
        built == virtualenv_create(
                     cookiecutter(delete_package_from(s, package), target, c),
                     package)
    IN  with_run_from(built, package.package,
            run_cmd_from(run_from_body(built, package.package),
                         <<"./scripts/bootstrap.sh">>, package.venv,
                         Exits(exit, "./scripts/bootstrap.sh")))

\* gen_requirements(package).
gen_requirements(s, package, exit) ==
    run_cmd_from(s, <<"./scripts/gen_requirements.sh">>, package.venv,
                 Exits(exit, "./scripts/gen_requirements.sh"))

\* install_dev_requirements() installing the package before pip-sync.
install_dev_requirements_swapped(s, package, exit) ==
    run_cmd_from(
        run_cmd_from(s, <<"pip", "install", "-e", ".[dev]">>, package.venv,
                     Exits(exit, "pip")),
        <<"pip-sync", "requirements/dev.txt">>, package.venv, Exits(exit, "pip-sync"))

\* install_dev_requirements(package), as statements.
install_dev_requirements_from(s, package, exit) ==
    run_cmd_from(
        run_cmd_from(s, <<"pip-sync", "requirements/dev.txt">>, package.venv,
                     Exits(exit, "pip-sync")),
        <<"pip", "install", "-e", ".[dev]">>, package.venv, Exits(exit, "pip"))

\* add_dependency() or update_dependency() as a statement: setup.py of the
\* package opened, rewritten and written back.
rewrite_setup(s, package, step) ==
    IF s.raises # "no" THEN s
    ELSE IF package.package \notin s.dirs
    THEN [s EXCEPT !.raises = "FileNotFoundError"]
    ELSE Did(s, step)

\* add_and_install_dependency(dependency, package), as statements.
add_and_install_dependency(s, dependency, package, exit) ==
    install_dev_requirements_from(
        gen_requirements(rewrite_setup(s, package, "add_dependency"), package, exit),
        package, exit)

\* update_and_install_dependency(old, new, package), as statements.
update_and_install_dependency(s, old, new, package, exit) ==
    install_dev_requirements_from(
        run_cmd_from(rewrite_setup(s, package, "update_dependency"),
                     <<"./scripts/update_requirements.sh", new>>, package.venv,
                     Exits(exit, "./scripts/update_requirements.sh")),
        package, exit)

\* The commands of the harness, whose exit codes are inputs: those of
\* create_package(), of add_and_install_dependency() and of
\* update_and_install_dependency().
CreateCommands == {"./scripts/bootstrap.sh"}
AddCommands == {"./scripts/gen_requirements.sh", "pip-sync", "pip"}
UpdateCommands == {"./scripts/update_requirements.sh", "pip-sync", "pip"}

(* ------------------------------- actions ------------------------------ *)

NoCall == [op |-> "none", args |-> <<>>]

\* The record of a call that rewrites setup.py, or of another.
Called(op, args, before, raises) ==
    [op |-> op, args |-> args, before |-> before, raises |-> raises, after |-> NoCall]

\* The record of a run of an audit: it follows the call `last` records.
Audited(op, raises) ==
    [op |-> op, args |-> <<>>, before |-> NoFile, raises |-> raises,
     after |-> [op |-> last.op, args |-> last.args]]

Init ==
    /\ test \in Tests
    /\ ctx \in IF test = "test_generation" THEN Contexts
               ELSE IF test = "test_bump_version"
                    THEN {[context EXCEPT !.version = v] : v \in Versions}
                    ELSE {context}
    /\ pc = "fixture"
    /\ tree = {}
    /\ setup = NoFile
    /\ init_version = None
    /\ version_file = <<>>
    /\ license = NoFile
    /\ pyproject = NoFile
    /\ bumps = 0
    /\ whitelist = NoFile
    /\ audit_ignore = NoFile
    /\ requirements = [requirements |-> {}, dev |-> {}]
    /\ site_packages = {}
    /\ error = None
    /\ result = None
    /\ last = [op |-> "none", args |-> <<>>, before |-> NoFile, raises |-> "no",
               after |-> NoCall]
    /\ hpc = "collected"
    /\ current = 1
    /\ cwd = ROOT
    /\ dirs = {ROOT, <<"/", "tmp">>, tmp_path(1)}
    /\ frames = <<>>
    /\ os_environ = [PATH |-> <<"/usr/bin", ":", "/bin">>, HOME |-> <<"/root">>]
    /\ process_environ = os_environ
    /\ child = NoChild
    /\ outcome = None
    /\ steps = <<>>

\* create_package() returning before it runs bootstrap.sh.
CreatePackageWithoutBootstrap ==
    /\ pc = "fixture"
    /\ project_slug(ctx.project_name) = PACKAGE_DIR
    /\ pc' = "ready"
    /\ tree' = TemplateFiles(ctx)
    /\ setup' = Rendered(ctx)
    /\ init_version' = ctx.version
    /\ version_file' = str(ctx.version) \o <<WS>>
    /\ license' = [year |-> YearOf(ctx.version)]
    /\ pyproject' = [current_version |-> ctx.version]
    /\ whitelist' = TemplateWhitelist
    /\ audit_ignore' = NoFile
    /\ last' = Called("create_package", <<>>, NoFile, "no")
    /\ UNCHANGED <<process, test, ctx, bumps, requirements, site_packages, error, result>>

\* create_package(): the old package and environment deleted, the template
\* rendered under <target>/<slug>, the environment built, and bootstrap.sh
\* run from <target>/test_package.
CreatePackage ==
    /\ pc = "fixture"
    /\ bumps' = bumps
    /\ audit_ignore' = NoFile
    /\ result' = result
    /\ test' = test
    /\ ctx' = ctx
    /\ UNCHANGED process
    /\ last' = Called("create_package", <<>>, NoFile,
                       IF project_slug(ctx.project_name) = PACKAGE_DIR
                       THEN "no" ELSE "FileNotFoundError")
    /\ IF project_slug(ctx.project_name) = PACKAGE_DIR
       THEN LET file == Rendered(ctx)
                pinned == compile_requirements(file, requirements).files
            IN  /\ pc' = "ready"
                /\ tree' = Bootstrapped(TemplateFiles(ctx))
                /\ setup' = file
                /\ init_version' = ctx.version
                /\ version_file' = str(ctx.version) \o <<WS>>
                /\ license' = [year |-> YearOf(ctx.version)]
                /\ pyproject' = [current_version |-> ctx.version]
                /\ whitelist' = TemplateWhitelist
                /\ requirements' = pinned
                /\ site_packages' = install_dev_requirements(pinned)
                /\ error' = error
       ELSE /\ pc' = "raised"
            /\ error' = [raises |-> "FileNotFoundError"]
            /\ UNCHANGED <<tree, setup, init_version, version_file, license,
                           pyproject, whitelist, requirements, site_packages>>

\* delete_package(): the package directory and the environment removed.
DeletePackage ==
    /\ pc = "ready"
    /\ pc' = "deleted"
    /\ tree' = {}
    /\ setup' = NoFile
    /\ init_version' = None
    /\ version_file' = <<>>
    /\ license' = NoFile
    /\ pyproject' = NoFile
    /\ whitelist' = NoFile
    /\ audit_ignore' = NoFile
    /\ requirements' = [requirements |-> {}, dev |-> {}]
    /\ site_packages' = {}
    /\ last' = Called("delete_package", <<>>, NoFile, "no")
    /\ UNCHANGED <<process, test, ctx, bumps, error, result>>

Added == Len(get_dependencies(setup).install) - Len(install_requires(ctx))

\* add_dependency(dependency, package).
AddDependency(dependency) ==
    /\ pc = "ready"
    /\ test = "test_generation"
    /\ Added < MaxAdded
    /\ setup' = add_dependency(dependency, setup)
    /\ last' = Called("add_dependency", <<dependency>>, setup, "no")
    /\ UNCHANGED <<process, test, ctx, pc, tree, version_files, whitelist, audit_ignore,
                   environment, error, result>>

\* update_dependency(old, new, package).
UpdateDependency(old, new) ==
    /\ pc = "ready"
    /\ test = "test_generation"
    /\ setup' = update_dependency(old, new, setup)
    /\ last' = Called("update_dependency", <<old, new>>, setup, "no")
    /\ UNCHANGED <<process, test, ctx, pc, tree, version_files, whitelist, audit_ignore,
                   environment, error, result>>

\* The steps after setup.py is rewritten: the requirements pinned again by
\* `script`, then install_dev_requirements(); a failing step raises and the
\* later ones do not run.
Pinned(script, file) ==
    run_cmd(script, [returncode |-> compile_requirements(file, requirements).returncode,
                     stdout |-> {}, stderr |-> {}])

PinAndInstall(script, file) ==
    LET done == Pinned(script, file)
        pinned == compile_requirements(file, requirements).files
    IN  IF done.raises = "no"
        THEN /\ requirements' = pinned
             /\ site_packages' = install_dev_requirements(pinned)
             /\ error' = error
        ELSE /\ error' = done
             /\ UNCHANGED <<requirements, site_packages>>

\* add_and_install_dependency(dependency, package).
AddAndInstallDependency(dependency) ==
    /\ pc = "ready"
    /\ test \in {"test_bad_licenses", "test_vulnerabilities"}
    /\ Added < MaxAdded
    /\ setup' = add_dependency(dependency, setup)
    /\ PinAndInstall("./scripts/gen_requirements.sh", setup')
    /\ last' = Called("add_and_install_dependency", <<dependency>>, setup,
                       Pinned("./scripts/gen_requirements.sh", setup').raises)
    /\ UNCHANGED <<process, test, ctx, pc, tree, version_files, whitelist, audit_ignore, result>>

\* update_and_install_dependency() stopping once setup.py is rewritten.
UpdateWithoutInstall(old, new) ==
    /\ pc = "ready"
    /\ test = "test_vulnerabilities"
    /\ setup' = update_dependency(old, new, setup)
    /\ last' = Called("update_and_install_dependency", <<old, new>>, setup, "no")
    /\ UNCHANGED <<process, test, ctx, pc, tree, version_files, whitelist, audit_ignore,
                   environment, error, result>>

\* update_and_install_dependency(old, new, package).
UpdateAndInstallDependency(old, new) ==
    /\ pc = "ready"
    /\ test = "test_vulnerabilities"
    /\ setup' = update_dependency(old, new, setup)
    /\ PinAndInstall("./scripts/update_requirements.sh", setup')
    /\ last' = Called("update_and_install_dependency", <<old, new>>, setup,
                       Pinned("./scripts/update_requirements.sh", setup').raises)
    /\ UNCHANGED <<process, test, ctx, pc, tree, version_files, whitelist, audit_ignore, result>>

\* A call of run_cmd made by a test: what it returns is kept in result,
\* what it raises in error; the other keeps what it held.
Ran(done) ==
    IF done.raises = "no"
    THEN result' = done /\ error' = error
    ELSE error' = done /\ result' = result

\* run_cmd("./scripts/run_audit.sh", venv=package.venv).
RunAudit ==
    /\ pc = "ready"
    /\ test = "test_vulnerabilities"
    /\ LET done == run_cmd("./scripts/run_audit.sh", run_audit(site_packages, audit_ignore))
       IN  Ran(done) /\ last' = Audited("run_audit", done.raises)
    /\ UNCHANGED <<process, test, ctx, pc, package_files, bumps, environment>>

\* test_ignore_vulnerable_package: the three advisories written to
\* .audit-ignore.
WriteAuditIgnore ==
    /\ pc = "ready"
    /\ test = "test_vulnerabilities"
    /\ audit_ignore' = <<"PYSEC-2021-63", "GHSA-x4qr-2fvf-3mr5", "GHSA-w7pp-m8wf-vj6r">>
    /\ tree' = tree \cup {".audit-ignore"}
    /\ last' = Called("write_audit_ignore", <<>>, NoFile, "no")
    /\ UNCHANGED <<process, test, ctx, pc, setup, version_files, whitelist, environment,
                   error, result>>

\* run_cmd("tox", "-e", "licenses", venv=package.venv).
RunLicenses ==
    /\ pc = "ready"
    /\ test = "test_bad_licenses"
    /\ LET done == run_cmd("tox -e licenses",
                           run_license_check(requirements.requirements, whitelist))
       IN  Ran(done) /\ last' = Audited("run_licenses", done.raises)
    /\ UNCHANGED <<process, test, ctx, pc, package_files, bumps, environment>>

Appended == Len(whitelist) - Len(TemplateWhitelist)

\* test_bad_license_package: a license appended to .license-whitelist.
AppendLicense(name) ==
    /\ pc = "ready"
    /\ test = "test_bad_licenses"
    /\ whitelist # NoFile
    /\ Appended < MaxAppended
    /\ whitelist' = Append(whitelist, name)
    /\ last' = Called("append_license", <<name>>, NoFile, "no")
    /\ UNCHANGED <<process, test, ctx, pc, tree, setup, version_files, audit_ignore,
                   environment, error, result>>

\* test_missing_license_whitelist: pathlib.Path(".license-whitelist").unlink().
UnlinkWhitelist ==
    /\ pc = "ready"
    /\ test = "test_bad_licenses"
    /\ whitelist # NoFile
    /\ whitelist' = NoFile
    /\ tree' = tree \ {".license-whitelist"}
    /\ last' = Called("unlink_whitelist", <<>>, NoFile, "no")
    /\ UNCHANGED <<process, test, ctx, pc, setup, version_files, audit_ignore, environment,
                   error, result>>

\* What the VERSION file may be made to hold by hand.
VersionTexts ==
    {str(v) \o <<WS>> : v \in Versions} \cup {str(v) : v \in Versions}
        \cup {<<WS>> \o str(v) \o <<WS, WS>> : v \in Versions}
        \cup {<<>>, <<WS>>}

\* The VERSION file edited by hand.
WriteVersionFile(text) ==
    /\ pc = "ready"
    /\ test = "test_bump_version"
    /\ version_file' = text
    /\ last' = Called("write_version_file", <<>>, NoFile, "no")
    /\ UNCHANGED <<process, test, ctx, pc, tree, setup, init_version, license, pyproject,
                   bumps, whitelist, audit_ignore, environment, error, result>>

\* The places BumpVer rewrites all hold the version it rewrites.
Rewritable ==
    /\ get_meta(setup)["version"] = pyproject.current_version
    /\ init_version = pyproject.current_version
    /\ Word(pyproject.current_version) \in Range(version_file)
    /\ license.year = YearOf(pyproject.current_version)

\* run_cmd("bumpver", "update", "--patch", venv=package.venv): every place
\* the version is kept rewritten, or nothing when one of them does not
\* hold the current version.
BumpVersion(day) ==
    /\ pc = "ready"
    /\ test = "test_bump_version"
    /\ bumps < MaxBumps
    /\ <<pyproject.current_version[1], pyproject.current_version[2]>> = day
         \/ pyproject.current_version[1] < day[1]
    /\ LET new == NextVersion(pyproject.current_version, day)
           done == run_cmd("bumpver update --patch",
                           [returncode |-> IF Rewritable THEN 0 ELSE 1, stdout |-> {},
                            stderr |-> {}])
       IN  /\ Ran(done)
           /\ last' = Called("bumpver_update", <<>>, NoFile, done.raises)
           /\ IF done.raises = "no"
              THEN /\ setup' = SetVersion(setup, new)
                   /\ init_version' = new
                   /\ version_file' =
                        [i \in 1..Len(version_file) |->
                            IF version_file[i] = Word(pyproject.current_version)
                            THEN Word(new) ELSE version_file[i]]
                   /\ license' = [year |-> YearOf(new)]
                   /\ pyproject' = [current_version |-> new]
                   /\ bumps' = bumps + 1
              ELSE UNCHANGED <<setup, version_files>>
    /\ UNCHANGED <<process, test, ctx, pc, tree, whitelist, audit_ignore, environment>>

Next ==
    \/ CreatePackage
    \/ DeletePackage
    \/ \E d \in {"pylint", "cryptography==3.3.1"} : AddDependency(d)
    \/ \E old \in {"attrs>=20.2", "pylint"}, new \in {"pylint", "cryptography>3.3.2"} :
            UpdateDependency(old, new)
    \/ \E d \in Dependencies : AddAndInstallDependency(d)
    \/ \E old \in {"cryptography==3.3.1", "pylint"},
          new \in {"cryptography>3.3.2", "cryptography==3.3.1"} :
            UpdateAndInstallDependency(old, new)
    \/ RunAudit
    \/ WriteAuditIgnore
    \/ RunLicenses
    \/ \E name \in {GPLv2, LGPLv2} : AppendLicense(name)
    \/ UnlinkWhitelist
    \/ \E text \in VersionTexts : WriteVersionFile(text)
    \/ \E day \in Dates : BumpVersion(day)

Spec == Init /\ [][Next]_vars

(* ========================== the test session ========================== *)

\* The package as `Spec` follows it, which the session leaves alone.
generated ==
    <<ctx, pc, tree, setup, init_version, version_file, license, pyproject, bumps,
      whitelist, audit_ignore, requirements, site_packages, error, result, last>>

\* The test modules whose package fixture adds a dependency of its own.
ModulesWithDependency == {"test_bad_licenses", "test_vulnerabilities"}

\* os.environ as the session may find it.
Environs ==
    {[PATH |-> <<"/usr/bin", ":", "/bin">>, HOME |-> <<"/root">>],
     [PATH |-> <<>>, HOME |-> <<"/root">>],
     [HOME |-> <<"/root">>]}

\* What a target may hold before create_package() is given it: nothing, as
\* pytest's tmp_path does, or what earlier packages left.
Leftovers == {{}, {PACKAGE_DIR, VENV_DIR, "other_package"}}

\* How a child process may end.
Processes ==
    {[returncode |-> 0, stdout |-> {"out"}, stderr |-> {"warning"}],
     [returncode |-> 1, stdout |-> {"out"}, stderr |-> {"err"}],
     [returncode |-> -9, stdout |-> {}, stderr |-> {}]}

\* The process as the next statement finds it.
Here ==
    [cwd |-> cwd, dirs |-> dirs, os_environ |-> os_environ,
     process_environ |-> process_environ, child |-> child, outcome |-> outcome,
     steps |-> <<>>, raises |-> "no"]

\* The process as the statements left it.
Becomes(s) ==
    /\ cwd' = s.cwd
    /\ dirs' = s.dirs
    /\ os_environ' = s.os_environ
    /\ process_environ' = s.process_environ
    /\ child' = s.child
    /\ outcome' = s.outcome
    /\ steps' = s.steps

\* The package of the test function being run.
ThePackage == Package(tmp_path(current), ROOT)

\* The test modules of the session: one with the package fixture of
\* conftest.py alone, one with a package fixture of its own.
HarnessTests == {"test_generation", "test_vulnerabilities"}

HarnessInit ==
    /\ test \in HarnessTests
    /\ ctx \in {context, [context EXCEPT !.project_name = "Other Package"]}
    /\ pc = "fixture"
    /\ tree = {}
    /\ setup = NoFile
    /\ init_version = None
    /\ version_file = <<>>
    /\ license = NoFile
    /\ pyproject = NoFile
    /\ bumps = 0
    /\ whitelist = NoFile
    /\ audit_ignore = NoFile
    /\ requirements = [requirements |-> {}, dev |-> {}]
    /\ site_packages = {}
    /\ error = None
    /\ result = None
    /\ last = [op |-> "none", args |-> <<>>, before |-> NoFile, raises |-> "no",
               after |-> NoCall]
    /\ hpc = "collected"
    /\ current = 1
    /\ cwd = ROOT
    /\ \E left \in Leftovers :
            dirs = {ROOT, <<"/", "tmp">>, tmp_path(1)}
                     \cup {Append(tmp_path(1), name) : name \in left}
    /\ frames = <<>>
    /\ os_environ \in Environs
    /\ process_environ = os_environ
    /\ child = NoChild
    /\ outcome = None
    /\ steps = <<>>

\* A run_from() block that is open: its generator's two paths, and the
\* working directory it was entered from.
Open(frame, from) ==
    [original_path |-> frame.original_path, target_path |-> frame.target_path,
     entered_from |-> from]

\* conftest.package up to its yield: create_package(target=tmp_path, **context).
PackageFixture(exit) ==
    /\ hpc = "collected"
    /\ LET created == create_package(Here, tmp_path(current), ctx, exit)
       IN  /\ Becomes(created)
           /\ hpc' = IF created.raises = "no" THEN "created" ELSE "errored"
    /\ UNCHANGED <<generated, test, current, frames>>

\* The package fixture of test_bad_licenses and of test_vulnerabilities up
\* to its yield: a dependency added and installed from the package.
ModulePackageFixture(dependency, exit) ==
    /\ hpc = "created"
    /\ test \in ModulesWithDependency
    /\ LET added == with_run_from(Here, ThePackage.package,
                        add_and_install_dependency(
                            run_from_body(Here, ThePackage.package),
                            dependency, ThePackage, exit))
       IN  /\ Becomes(added)
           /\ hpc' = IF added.raises = "no" THEN "requested" ELSE "unwinding"
    /\ UNCHANGED <<generated, test, current, frames>>

\* conftest.run_from_package up to its yield: run_from(package.package)
\* entered; the test body is next.
RunFromPackage ==
    /\ \/ hpc = "created" /\ test \notin ModulesWithDependency
       \/ hpc = "requested"
    /\ LET entered == run_from_enter(ThePackage.package, cwd, dirs)
       IN  /\ cwd' = entered.cwd
           /\ IF entered.raises = "no"
              THEN hpc' = "body" /\ frames' = <<Open(entered.frame, cwd)>>
              ELSE hpc' = "unwinding" /\ frames' = frames
    /\ steps' = <<>>
    /\ UNCHANGED <<generated, test, current, dirs, os_environ, process_environ,
                   child, outcome>>

\* Most run_from() blocks a test body opens inside one another.
MaxNesting == 2
\* Most test functions of a session.
MaxTests == 2
\* The paths a test body gives run_from(): relative ones, absolute ones,
\* and one that is not there.
BodyPaths == {<<"..">>, ROOT, <<"missing">>}

\* with run_from(path): entered by the test body.
RunFrom(path) ==
    /\ hpc = "body"
    /\ Len(frames) <= MaxNesting
    /\ LET entered == run_from_enter(path, cwd, dirs)
       IN  /\ cwd' = entered.cwd
           /\ frames' = IF entered.raises = "no"
                        THEN Append(frames, Open(entered.frame, cwd)) ELSE frames
           /\ steps' = <<[step |-> "run_from", returncode |-> 0,
                         raises |-> entered.raises, path |-> path, from |-> cwd]>>
    /\ UNCHANGED <<generated, test, hpc, current, dirs, os_environ, process_environ,
                   child, outcome>>

\* The innermost run_from() block of the test body left, its body done.
LeaveRunFrom ==
    /\ hpc = "body"
    /\ Len(frames) > 1
    /\ LET frame == frames[Len(frames)]
           resumed == run_from_resume(frame, cwd, dirs)
       IN  /\ cwd' = resumed.cwd
           /\ steps' = <<[step |-> "left", returncode |-> 0,
                         raises |-> resumed.raises, frame |-> frame]>>
    /\ frames' = SubSeq(frames, 1, Len(frames) - 1)
    /\ UNCHANGED <<generated, test, hpc, current, dirs, os_environ, process_environ,
                   child, outcome>>

\* run_cmd(*args, venv=venv) by the test body.  What it raises leaves
\* `unwound` of the body's run_from() blocks before pytest.raises() or a
\* handler of the body has it.
RunCmd(args, venv, finished, unwound) ==
    /\ hpc = "body"
    /\ unwound < Len(frames)
    /\ LET ran == run_cmd_from(Here, args, venv, finished)
           left == IF ran.raises = "no" THEN 0 ELSE unwound
       IN  /\ cwd' = ran.cwd
           /\ os_environ' = ran.os_environ
           /\ process_environ' = ran.process_environ
           /\ child' = ran.child
           /\ outcome' = ran.outcome
           /\ frames' = SubSeq(frames, 1, Len(frames) - left)
           /\ steps' = <<[step |-> "run_cmd", returncode |-> finished.returncode,
                         raises |-> ran.raises, venv |-> venv,
                         finished |-> finished, unwound |-> left,
                         environ |-> os_environ, again |-> child # NoChild,
                         entered_from |->
                            IF left > 0
                            THEN frames[Len(frames) - left + 1].entered_from
                            ELSE cwd]>>
    /\ UNCHANGED <<generated, test, hpc, current, dirs>>

\* test_update_vulnerable_package: update_and_install_dependency() called
\* by the body, from the package directory.  What it raises fails the test.
UpdateAndInstall(old, new, exit) ==
    /\ hpc = "body"
    /\ test = "test_vulnerabilities"
    /\ Len(frames) = 1
    /\ LET updated == update_and_install_dependency(Here, old, new, ThePackage, exit)
       IN  /\ cwd' = updated.cwd
           /\ dirs' = updated.dirs
           /\ os_environ' = updated.os_environ
           /\ process_environ' = updated.process_environ
           /\ IF updated.raises = "no"
              THEN /\ hpc' = "body"
                   /\ steps' = updated.steps
                   /\ child' = updated.child
                   /\ outcome' = updated.outcome
              ELSE /\ hpc' = "ended"
                   /\ steps' = Append(updated.steps, [step |-> "failed", returncode |-> 0])
                   /\ child' = NoChild
                   /\ outcome' = None
    /\ UNCHANGED <<generated, test, current, frames>>

\* The test body ends.  It passes with its run_from() blocks left; what it
\* fails with leaves the blocks still open and reaches pytest.
EndBody(report) ==
    /\ hpc = "body"
    /\ report = "passed" => Len(frames) = 1
    /\ hpc' = "ended"
    /\ frames' = <<frames[1]>>
    /\ steps' = <<[step |-> report, returncode |-> 0]>>
    /\ child' = NoChild
    /\ outcome' = None
    /\ UNCHANGED <<generated, test, current, cwd, dirs, os_environ, process_environ>>

\* conftest.run_from_package resumed by pytest after the test, passed or
\* failed: run_from() goes back to where it was entered from.
LeaveRunFromPackage ==
    /\ hpc = "ended"
    /\ LET resumed == run_from_resume(frames[1], cwd, dirs)
       IN  /\ cwd' = resumed.cwd
           /\ steps' = Append(steps, [step |-> "run_from_package", returncode |-> 0,
                                      raises |-> resumed.raises,
                                      frame |-> frames[1]])
    /\ frames' = <<>>
    /\ hpc' = "restored"
    /\ UNCHANGED <<generated, test, current, dirs, os_environ, process_environ,
                   child, outcome>>

\* conftest.package resumed: delete_package(package).  It runs after the
\* fixtures set up later were finalized, and also when one of them raised.
PackageFinalizer ==
    /\ hpc \in {"restored", "unwinding"}
    /\ dirs' = delete_package(ThePackage, dirs)
    /\ steps' = Append(steps, [step |-> "delete_package", returncode |-> 0])
    /\ hpc' = IF hpc = "restored" THEN "finished" ELSE "errored"
    /\ UNCHANGED <<generated, test, current, cwd, frames, os_environ, process_environ,
                   child, outcome>>

\* The next test function, of any module, with a tmp_path of its own.
NextTest(module) ==
    /\ hpc \in {"finished", "errored"}
    /\ current < MaxTests
    /\ current' = current + 1
    /\ test' = module
    /\ hpc' = "collected"
    /\ dirs' = dirs \cup {tmp_path(current')}
    /\ steps' = <<>>
    /\ child' = NoChild
    /\ outcome' = None
    /\ UNCHANGED <<generated, cwd, frames, os_environ, process_environ>>

HarnessNext ==
    \/ \E exit \in [CreateCommands -> {0, 1}] : PackageFixture(exit)
    \/ \E exit \in [AddCommands -> {0, 1}] :
            ModulePackageFixture(IF test = "test_bad_licenses"
                                 THEN "pylint" ELSE "cryptography==3.3.1", exit)
    \/ RunFromPackage
    \/ \E path \in BodyPaths : RunFrom(path)
    \/ LeaveRunFrom
    \/ \E args \in {<<"tox", "-e", "licenses">>},
          venv \in {None, ThePackage.venv}, finished \in Processes,
          unwound \in 0..MaxNesting :
            RunCmd(args, venv, finished, unwound)
    \/ \E exit \in [UpdateCommands -> {0, 1}] :
            UpdateAndInstall("cryptography==3.3.1", "cryptography>3.3.2", exit)
    \/ \E report \in {"passed", "failed"} : EndBody(report)
    \/ LeaveRunFromPackage
    \/ PackageFinalizer
    \/ \E module \in HarnessTests : NextTest(module)

Harness == HarnessInit /\ [][HarnessNext]_vars

(* ======================================================================= *)
(*                               the claims                                *)
(* ======================================================================= *)

\* create_package() has returned and nothing has touched the package since.
Generated == pc = "ready" /\ last.op = "create_package"

Install == get_dependencies(setup)["install"]
Extras == get_dependencies(setup)["extras"]
InstallBefore == get_dependencies(last.before)["install"]

\* What TestPackageGeneration.check_dependencies and its overrides expect.
ExpectedInstall(trio, db) ==
    <<"attrs>=20.2", "zope.interface>=5.0", "mypy-zope>=0.3.3">>
      \o (IF trio THEN <<"trio>=0.19", "trio-typing>=0.7">> ELSE <<>>)
      \o (IF db THEN <<"alembic>=1.7", "psycopg2-binary", "sqlalchemy[mypy]>=2.0">>
          ELSE <<>>)
ExpectedDev(trio) ==
    <<"bandit", "bumpver>=2021.1109", "black>=22.1", "coverage[toml]>=5.0",
      "flake8", "flake8-bugbear", "hypothesis>=6.0", "isort>=5.0",
      "mypy>=0.920", "pdbpp", "pip-audit", "pylint", "pytest>=6.0",
      "pytest-cov>=3.0", "tox">>
      \o (IF trio THEN <<"pytest-trio>=0.7">> ELSE <<>>)

\* C1: for every combination of use_trio and use_db, get_dependencies on the
\* generated setup.py returns the three base install requirements, then the
\* two trio ones exactly when use_trio is "y", then the three database ones
\* exactly when use_db is "y"; its extras are the one group "dev", the
\* fifteen base development requirements and then pytest-trio exactly when
\* use_trio is "y", whatever use_db is.
C1_GeneratedDependencies ==
    Generated =>
        get_dependencies(setup) =
            [install |-> ExpectedInstall(ctx.use_trio = "y", ctx.use_db = "y"),
             extras |-> [dev |-> ExpectedDev(ctx.use_trio = "y")]]

C1_Witness ==
    /\ Generated
    /\ ctx.use_trio = "y" /\ ctx.use_db = "y"
    /\ Len(Install) = 8 /\ Len(Extras["dev"]) = 16

\* C5: get_meta on a generated package returns exactly the keys name,
\* version, author and author_email: the project slug ("test_package" for
\* "Test Package") and the version, full_name and email of the context; no
\* other keyword of setup() or of a call nested in it is in the result.
C5_GeneratedMeta ==
    Generated =>
        /\ get_meta(setup) =
              [name |-> project_slug(ctx.project_name), version |-> ctx.version,
               author |-> ctx.full_name, author_email |-> ctx.email]
        /\ DOMAIN get_meta(setup) = {"name", "version", "author", "author_email"}
        /\ ctx.project_name = "Test Package" => get_meta(setup)["name"] = "test_package"

C5_Witness ==
    /\ Generated
    /\ ctx.project_name = "Test Package" /\ ctx.version = <<23, 1, 0>>
    /\ get_meta(setup)["version"] = <<23, 1, 0>>

\* C6: once create_package has returned, every path of
\* TestPackageGeneration.FILES is a regular file of the package,
\* scripts/bootstrap.sh is gone and the two pinned requirements files are
\* not empty; a package generated with use_db "y" also holds the six
\* database files.
C6_GeneratedFiles ==
    Generated =>
        /\ FILES \subseteq tree
        /\ "scripts/bootstrap.sh" \notin tree
        /\ \A path \in RequirementsFiles : path \in tree /\ st_size(path) > 0
        /\ ctx.use_db = "y" => DB_FILES \subseteq tree

C6_Witness ==
    /\ Generated
    /\ ctx.use_db = "y"
    /\ "alembic/env.py" \in tree /\ "requirements/dev.txt" \in tree

\* C9: add_dependency(d, package) leaves install_requires as it was with d
\* appended, also when d was in it already; the extras and what get_meta
\* returns are as before the call.
C9_AddDependencyAppends ==
    last.op \in {"add_dependency", "add_and_install_dependency"} =>
        /\ Install = Append(InstallBefore, last.args[1])
        /\ Extras = get_dependencies(last.before)["extras"]
        /\ get_meta(setup) = get_meta(last.before)

C9_Witness ==
    /\ last.op = "add_dependency"
    /\ \E i \in 1..Len(InstallBefore) : InstallBefore[i] = last.args[1]
    /\ Len(Install) = Len(InstallBefore) + 1

\* C10: update_dependency(old, new, package) puts new in the place of every
\* element of install_requires equal to old and changes nothing else: the
\* list keeps its length and order, the other elements, the extras and the
\* metadata are as before.
C10_UpdateDependencyReplaces ==
    last.op \in {"update_dependency", "update_and_install_dependency"} =>
        /\ Len(Install) = Len(InstallBefore)
        /\ \A i \in 1..Len(InstallBefore) :
              Install[i] = IF InstallBefore[i] = last.args[1]
                           THEN last.args[2] ELSE InstallBefore[i]
        /\ Extras = get_dependencies(last.before)["extras"]
        /\ get_meta(setup) = get_meta(last.before)

C10_Witness ==
    /\ last.op = "update_dependency"
    /\ last.args[1] # last.args[2]
    /\ Cardinality({i \in 1..Len(InstallBefore) : InstallBefore[i] = last.args[1]}) = 2
    /\ Cardinality({i \in 1..Len(Install) : Install[i] = last.args[2]}) >= 2

\* What test_bump_version reads from the package.
CurrentVersion == get_current_version(init_version, version_file)
Returns(v) == CurrentVersion.raises = "no" /\ CurrentVersion.value = v
BumpverInfo == get_bumpver_info(pyproject.current_version)

\* C2: a package generated with version 22.2.11 has that version in
\* setup.py, in __version__ and in VERSION, and 2022 as its LICENSE year;
\* after every patch bump the three hold BumpVer's CURRENT_VERSION and the
\* LICENSE year is BumpVer's YEAR_Y.  get_current_version returns a value,
\* __version__, only when VERSION holds the same version (it is read
\* without the white space around it), and fails its assertion otherwise.
C2_VersionConsistency ==
    (test = "test_bump_version" /\ pc = "ready") =>
        /\ (Generated /\ ctx.version = <<22, 2, 11>>) =>
              /\ get_meta(setup)["version"] = <<22, 2, 11>>
              /\ Returns(<<22, 2, 11>>)
              /\ get_license_year(license) = 2022
        /\ (last.op = "bumpver_update" /\ last.raises = "no") =>
              /\ get_meta(setup)["version"] = BumpverInfo["CURRENT_VERSION"]
              /\ Returns(BumpverInfo["CURRENT_VERSION"])
              /\ get_license_year(license) = BumpverInfo["YEAR_Y"]
        /\ IF \E i \in 1..Len(version_file) :
                  /\ version_file[i] = Word(init_version)
                  /\ \A j \in 1..Len(version_file) : j # i => version_file[j] = WS
           THEN Returns(init_version)
           ELSE CurrentVersion.raises = "AssertionError"

\* A second bump, on a later day, of a package whose VERSION file ends
\* with a newline.
C2_Witness ==
    /\ test = "test_bump_version" /\ pc = "ready"
    /\ last.op = "bumpver_update" /\ last.raises = "no"
    /\ bumps = 2
    /\ ctx.version = <<22, 2, 11>>
    /\ pyproject.current_version = <<26, 11, 0>>
    /\ version_file = <<Word(<<26, 11, 0>>), WS>>
    /\ license.year = 2026

\* The assertion of get_current_version failing.
C2_AssertionWitness ==
    /\ test = "test_bump_version" /\ pc = "ready"
    /\ CurrentVersion.raises = "AssertionError"
    /\ version_file = <<Word(<<23, 1, 0>>), WS>>
    /\ init_version = <<22, 2, 11>>

\* The projects setup.py declares as install requirements, with what they
\* pull in, and whether the pinned install requirements are theirs.
Declared ==
    LET named == {ProjectOf(Install[i]) : i \in 1..Len(Install)}
    IN  named \cup UNION {Requires(p) : p \in named}
PinnedAsDeclared == {pin.project : pin \in requirements.requirements} = Declared
Listed == {whitelist[i] : i \in 1..Len(whitelist)}

ToxLicenses == "tox -e licenses"
AuditScript == "./scripts/run_audit.sh"
Vulnerable == [project |-> "cryptography", release |-> "3.3.1"]

\* C3: while an install dependency of the package has a license that
\* .license-whitelist does not list (pylint, GPLv2; astroid, LGPLv2), the
\* license audit fails with exit code 1; once every such license is in the
\* whitelist the same audit succeeds with exit code 0.
C3_LicenseAudit ==
    (last.op = "run_licenses" /\ whitelist # NoFile /\ PinnedAsDeclared) =>
        IF \E p \in Declared : LicenseOf(p) \notin Listed
        THEN /\ last.raises = "CalledProcessError"
             /\ error.cmd = ToxLicenses /\ error.returncode = 1
        ELSE /\ last.raises = "no"
             /\ result.cmd = ToxLicenses /\ result.returncode = 0

\* The audit passing with pylint installed, after it failed and both
\* licenses were appended.
C3_Witness ==
    /\ last.op = "run_licenses" /\ last.raises = "no"
    /\ last.after = [op |-> "append_license", args |-> <<LGPLv2>>]
    /\ PinnedAsDeclared /\ {"pylint", "astroid"} \subseteq Declared
    /\ {GPLv2, LGPLv2} \subseteq Listed
    /\ error # None /\ error.cmd = ToxLicenses /\ error.returncode = 1
    /\ result.returncode = 0

\* C4: while cryptography==3.3.1 is declared and installed (and no
\* advisory is ignored, as in test_update_vulnerable_package),
\* run_audit.sh fails with exit code 1 and its output names the package,
\* the three advisories and the fix version 3.3.2; the audit run after
\* update_and_install_dependency has put "cryptography>3.3.2" in its place
\* succeeds with exit code 0.
C4_VulnerabilityAudit ==
    last.op = "run_audit" =>
        /\ ("cryptography==3.3.1" \in Range(Install) /\ Vulnerable \in site_packages
              /\ audit_ignore = NoFile) =>
              /\ last.raises = "CalledProcessError"
              /\ error.cmd = AuditScript /\ error.returncode = 1
              /\ {"cryptography", "PYSEC-2021-63", "GHSA-x4qr-2fvf-3mr5",
                  "GHSA-w7pp-m8wf-vj6r", "3.3.2"} \subseteq error.stdout
        /\ last.after = [op |-> "update_and_install_dependency",
                         args |-> <<"cryptography==3.3.1", "cryptography>3.3.2">>] =>
              /\ last.raises = "no"
              /\ result.cmd = AuditScript /\ result.returncode = 0

\* The audit passing after the update, the failed audit before it still in
\* error.
C4_Witness ==
    /\ last.op = "run_audit" /\ last.raises = "no"
    /\ last.after = [op |-> "update_and_install_dependency",
                     args |-> <<"cryptography==3.3.1", "cryptography>3.3.2">>]
    /\ "cryptography>3.3.2" \in Range(Install)
    /\ [project |-> "cryptography", release |-> "41.0.0"] \in site_packages
    /\ audit_ignore = NoFile
    /\ error # None /\ error.cmd = AuditScript /\ "PYSEC-2021-63" \in error.stdout
    /\ result.returncode = 0

\* C7: with .license-whitelist removed the license audit fails with exit
\* code 1 and its output says the whitelist was not found, or found empty,
\* whatever is installed.
C7_MissingWhitelist ==
    (last.op = "run_licenses" /\ whitelist = NoFile) =>
        /\ last.raises = "CalledProcessError"
        /\ error.cmd = ToxLicenses /\ error.returncode = 1
        /\ WhitelistMissing \in error.stdout

C7_Witness ==
    /\ last.op = "run_licenses" /\ whitelist = NoFile
    /\ last.after.op = "unlink_whitelist"
    /\ ".license-whitelist" \notin tree
    /\ "pylint" \in Declared /\ PinnedAsDeclared
    /\ error.returncode = 1

\* C8: in test_ignore_vulnerable_package, with cryptography 3.3.1
\* installed, the audit run made once the three advisories are in
\* .audit-ignore succeeds, and the output the test then checks (that of
\* error, the failure its first run raised) names none of the three: the
\* test's assertions all hold in one run.
C8_IgnoredAdvisoriesUnreported ==
    (/\ last.op = "run_audit" /\ last.after.op = "write_audit_ignore"
     /\ Vulnerable \in site_packages
     /\ error # None /\ error.cmd = AuditScript) =>
        /\ last.raises = "no"
        /\ error.stdout \cap VulnerabilityIds = {}

(* ------------------------- claims on the harness ---------------------- *)

\* The test body has just called run_cmd(), and a child process ran.
RanCommand == hpc = "body" /\ steps # <<>> /\ steps[1].step = "run_cmd"
ChildRan == RanCommand /\ steps[1].raises # "KeyError"

\* C11: run_cmd() returns a CompletedProcess only when the command exits
\* with code 0, and then what is returned has returncode 0; for every other
\* exit code it raises CalledProcessError carrying that exit code and the
\* captured stdout and stderr of the child.
C11_RunCmdChecksExitCode ==
    ChildRan =>
        /\ outcome.raises = "no" <=> steps[1].finished.returncode = 0
        /\ outcome.raises = "no" => outcome.returncode = 0
        /\ steps[1].finished.returncode # 0 =>
              /\ outcome.raises = "CalledProcessError"
              /\ outcome.returncode = steps[1].finished.returncode
              /\ outcome.stdout = steps[1].finished.stdout
              /\ outcome.stderr = steps[1].finished.stderr

C11_Witness ==
    /\ ChildRan
    /\ outcome.raises = "CalledProcessError"
    /\ outcome.returncode = -9
    /\ steps[1].venv # None

\* The directory a path given by a test body names, from where it is given.
Named(path, from) ==
    IF path = <<"..">> THEN SubSeq(from, 1, Len(from) - 1) ELSE path

\* C12: run_from(path) runs its body with the resolved path as working
\* directory, and a block whose body completes goes back to the working
\* directory it was entered from, however the blocks are nested.
C12_RunFromRestores ==
    /\ (hpc = "body" /\ steps # <<>> /\ steps[1].step = "run_from"
            /\ steps[1].raises = "no") =>
          /\ cwd = Named(steps[1].path, steps[1].from)
          /\ frames[Len(frames)].entered_from = steps[1].from
    /\ (hpc = "body" /\ steps # <<>> /\ steps[1].step = "left"
            /\ steps[1].raises = "no") =>
          cwd = steps[1].frame.entered_from
    /\ (hpc = "body" /\ steps = <<>>) => cwd = ThePackage.package
    /\ (hpc = "restored" /\ steps[Len(steps)].raises = "no") =>
          cwd = steps[Len(steps)].frame.entered_from

\* A block nested in two others has been left for the directory of the
\* block around it, which is neither the package's nor the session's.
C12_Witness ==
    /\ hpc = "body" /\ steps # <<>> /\ steps[1].step = "left"
    /\ steps[1].raises = "no"
    /\ Len(frames) = 2
    /\ steps[1].frame.target_path = ROOT
    /\ cwd = tmp_path(current)

\* C13: every test function has a package of its own, created under its
\* tmp_path before its body runs; the body starts in the package directory;
\* and once the body has ended, passed or failed, the working directory is
\* restored first (to the one the session was in before the body's
\* run_from_package) and the package directory and its virtual environment
\* are deleted next.
C13_PerTestPackage ==
    /\ hpc = "body" =>
          /\ ThePackage.package \in dirs /\ ThePackage.venv \in dirs
          /\ Within(ThePackage.package, tmp_path(current))
          /\ \A n \in 1..(current - 1) :
                Package(tmp_path(n), ROOT).package # ThePackage.package
          /\ frames[1].target_path = ThePackage.package
          /\ steps = <<>> => cwd = ThePackage.package
    /\ hpc = "restored" =>
          /\ cwd = steps[Len(steps)].frame.entered_from
          /\ cwd # ThePackage.package
          /\ ThePackage.package \in dirs /\ ThePackage.venv \in dirs
    /\ hpc = "finished" =>
          /\ Len(steps) >= 3
          /\ cwd = steps[Len(steps) - 1].frame.entered_from
          /\ ThePackage.package \notin dirs /\ ThePackage.venv \notin dirs
          /\ steps[Len(steps) - 2].step \in {"passed", "failed"}
          /\ steps[Len(steps) - 1].step = "run_from_package"
          /\ steps[Len(steps) - 1].raises = "no"
          /\ steps[Len(steps)].step = "delete_package"

\* The second test of a session has failed inside a run_from() block of its
\* own and its fixtures have been finalized.
C13_Witness ==
    /\ hpc = "finished" /\ current = 2
    /\ Len(steps) = 3 /\ steps[1].step = "failed"
    /\ test = "test_vulnerabilities"
    /\ ThePackage.package \notin dirs /\ ThePackage.venv \notin dirs
    /\ cwd = ROOT

\* C14: when create_package() calls Cookiecutter the target directory has
\* no entries, whatever it held when create_package() was called.
C14_TargetEmptyAtCookiecutter ==
    \A i \in 1..Len(steps) :
        steps[i].step = "cookiecutter" => steps[i].entries = {}

\* C15: when the body of a run_from() block raises, the working directory
\* is back to the one the block was entered from once the block is left:
\* for the blocks of a test body that a failing run_cmd() leaves, and for
\* the block of create_package() when bootstrap.sh fails.
C15_RunFromRestoresOnRaise ==
    /\ (RanCommand /\ steps[1].unwound > 0) => cwd = steps[1].entered_from
    /\ (hpc = "errored" /\ current = 1 /\ steps # <<>>
            /\ steps[Len(steps)].step = "./scripts/bootstrap.sh") => cwd = ROOT

\* The steps of the three workflows, in the order the claim gives them.
CreateSteps ==
    <<"delete_package", "cookiecutter", "virtualenv.create", "./scripts/bootstrap.sh">>
AddSteps ==
    <<"add_dependency", "./scripts/gen_requirements.sh",
      "pip-sync requirements/dev.txt", "pip install -e '.[dev]'">>
UpdateSteps ==
    <<"update_dependency", "./scripts/update_requirements.sh 'cryptography>3.3.2'",
      "pip-sync requirements/dev.txt", "pip install -e '.[dev]'">>

\* The steps a call of the harness made, without the test's report.
Made ==
    IF steps # <<>> /\ steps[Len(steps)].step = "failed"
    THEN SubSeq(steps, 1, Len(steps) - 1) ELSE steps

\* The steps made are the first of `expected`, in its order, every step
\* before the last has exit code 0, and with nothing raised all are made.
Follows(made, expected, raised) ==
    /\ Len(made) <= Len(expected)
    /\ \A i \in 1..Len(made) : made[i].step = expected[i]
    /\ \A i \in 1..(Len(made) - 1) : made[i].returncode = 0
    /\ ~raised => Len(made) = Len(expected) /\ made[Len(made)].returncode = 0
    /\ (raised /\ Len(made) = Len(expected)) => made[Len(made)].returncode # 0

\* C16: create_package() deletes the old package and environment, renders
\* the template, creates the environment and runs bootstrap.sh, in that
\* order; add_and_install_dependency() and update_and_install_dependency()
\* rewrite setup.py, pin the requirements again, run pip-sync on
\* requirements/dev.txt and install the package in editable mode, in that
\* order; a step that ends with a non-zero exit code is the last one made.
C16_WorkflowOrder ==
    /\ (hpc \in {"created", "errored"} /\ steps # <<>>
            /\ steps[1].step = "delete_package" /\ Len(steps) > 1) =>
          Follows(steps, CreateSteps, hpc = "errored")
    /\ (hpc \in {"requested", "unwinding"} /\ steps # <<>>) =>
          Follows(steps, AddSteps, hpc = "unwinding")
    /\ (hpc \in {"body", "ended"} /\ steps # <<>>
            /\ steps[1].step = "update_dependency") =>
          Follows(Made, UpdateSteps, hpc = "ended")

\* update_and_install_dependency() has stopped at a failing pip-sync.
C16_Witness ==
    /\ hpc = "ended" /\ Len(steps) = 4
    /\ steps[1].step = "update_dependency"
    /\ steps[2].returncode = 0
    /\ steps[3].step = "pip-sync requirements/dev.txt" /\ steps[3].returncode = 1
    /\ steps[4].step = "failed"

\* C17: for every combination of use_trio and use_db the two setup.py
\* templates render the same install_requires list and the same dev extras
\* list, so that the lists the generation tests expect hold whichever of
\* the two is rendered.
C17_TemplatesAgree ==
    (Generated /\ test = "test_generation") =>
        /\ get_dependencies(Rendered_project_slug(ctx)) = get_dependencies(setup)
        /\ get_dependencies(Rendered_project_slug(ctx)) =
              [install |-> ExpectedInstall(ctx.use_trio = "y", ctx.use_db = "y"),
               extras |-> [dev |-> ExpectedDev(ctx.use_trio = "y")]]

\* The bin directory of the test's virtual environment, as a string.
VenvBin == "/tmp/" \o TmpNames[current] \o "/package_venv/bin"

====
